---- MODULE Spec2Model ----
\* Google Calendar "New or Updated Event (Instant)" source: push-channel
\* lifecycle (watch / stop / renew), notification validation, sync-token
\* pagination and event projection, modelled from
\* components/google_calendar/sources/new-or-updated-event-instant.
EXTENDS Integers, Sequences, FiniteSets, TLC

\* ------------------------------------------------------------------ bounds
\* number of uuid() values the model may draw (one per watch request)
MaxUuid == 4
\* number of list calls the remote feed allows one fetch cycle
MaxListCalls == 2

\* --------------------------------------------------------- program constants
maxDiffMilliseconds == 2000
StatusNoContent == 204
StatusGone == 410

\* ------------------------------------------------------- JavaScript values
\* Every value held in the store, in a header or in a local is a tagged
\* record, so that null, undefined (an absent key / header) and the opaque
\* strings stay distinct and comparable.
Undefined == [t |-> "undefined", v |-> <<>>]
Null == [t |-> "null", v |-> <<>>]
Uuid(n) == [t |-> "uuid", v |-> <<n>>]
Token(n) == [t |-> "token", v |-> <<n>>]
PageToken(n) == [t |-> "page", v |-> <<n>>]
Str(digits) == [t |-> "string", v |-> digits]

\* JS truthiness of the values above (all strings of the model are non-empty)
Truthy(x) == x.t \notin {"undefined", "null"}

\* JS numbers: an integer or NaN
NaN == [nan |-> TRUE, n |-> 0]
Num(k) == [nan |-> FALSE, n |-> k]
NumAdd(a, b) == IF a.nan \/ b.nan THEN NaN ELSE Num(a.n + b.n)
NumSub(a, b) == IF a.nan \/ b.nan THEN NaN ELSE Num(a.n - b.n)
NumAbs(a) == IF a.nan THEN NaN ELSE Num(IF a.n < 0 THEN 0 - a.n ELSE a.n)
NumGt(a, b) == ~a.nan /\ ~b.nan /\ a.n > b.n
NumLe(a, b) == ~a.nan /\ ~b.nan /\ a.n <= b.n
NumToString(a) == IF a.nan THEN "NaN" ELSE ToString(a.n)

\* decimal digits of a natural number, as the remote formats `expiration`
RECURSIVE ToDigits(_)
ToDigits(n) == IF n < 10 THEN <<n>> ELSE Append(ToDigits(n \div 10), n % 10)

RECURSIVE DigitsValue(_)
DigitsValue(ds) ==
  IF ds = <<>> THEN 0
  ELSE 10 * DigitsValue(SubSeq(ds, 1, Len(ds) - 1)) + ds[Len(ds)]

\* parseInt(x): the number a decimal string denotes; NaN for null, undefined
\* and every other non-numeric value
ParseInt(x) == IF x.t = "string" /\ x.v # <<>> THEN Num(DigitsValue(x.v)) ELSE NaN

\* An RFC 3339 timestamp string: whole seconds, a millisecond fraction and a
\* UTC offset in minutes; valid = FALSE is a missing or malformed string.
Timestamp(sec, ms, off) == [valid |-> TRUE, sec |-> sec, ms |-> ms, off |-> off]
BadTimestamp == [valid |-> FALSE, sec |-> 0, ms |-> 0, off |-> 0]

\* Date.parse(s): milliseconds since the epoch, NaN for an unparseable string
DateParse(s) ==
  IF s.valid THEN Num((s.sec * 1000 + s.ms) - s.off * 60000) ELSE NaN

\* ------------------------------------------------------------ pure methods
IsNewEventNoAbs(event) ==
  NumLe(NumSub(DateParse(event.updated), DateParse(event.created)),
        Num(maxDiffMilliseconds))

_isNewEvent(event) ==
  LET createdTimestampMilliseconds == DateParse(event.created)
      updatedTimestampMilliseconds == DateParse(event.updated)
      diffMilliseconds ==
        NumAbs(NumSub(updatedTimestampMilliseconds, createdTimestampMilliseconds))
  IN  NumLe(diffMilliseconds, Num(maxDiffMilliseconds))

isEventRelevant(flag, event) == ~flag \/ _isNewEvent(event)

MetaDropsTimestamp(event) ==
  [id |-> event.id, summary |-> event.summary, ts |-> DateParse(event.updated)]

generateMeta(event) ==
  LET ts == DateParse(event.updated)
  IN  [id |-> event.id \o "-" \o NumToString(ts), summary |-> event.summary, ts |-> ts]

\* events.filter(this.isEventRelevant, this)
FilterRelevant(flag, events) ==
  SelectSeq(events, LAMBDA e : isEventRelevant(flag, e))

EmitsCancelledToo(events) ==
  [k \in 1..Len(events) |-> [event |-> events[k], meta |-> generateMeta(events[k])]]

\* .forEach(...): a cancelled event is skipped, every other one is emitted
\* with its metadata, in order
ForEachEmit(events) ==
  LET kept == SelectSeq(events, LAMBDA e : e.status # "cancelled")
  IN  [k \in 1..Len(kept) |-> [event |-> kept[k], meta |-> generateMeta(kept[k])]]

RECURSIVE Reverse(_)
Reverse(seq) == IF seq = <<>> THEN <<>> ELSE Append(Reverse(Tail(seq)), Head(seq))

EmitAllReversed(flag, events) == ForEachEmit(FilterRelevant(flag, Reverse(events)))

\* the (event, meta) pairs one page's items make the source emit
EmitAll(flag, events) == ForEachEmit(FilterRelevant(flag, events))

\* ------------------------------------------------------------------- state
VARIABLES
  calendarIds,  \* prop: the configured calendars, in order
  newOnly,      \* prop: the "new events only" flag
  db,           \* $.service.db: calendar -> persisted fields
  channels,     \* remote: the channels registered by watch and not stopped
  uuidCount,    \* number of uuid() values drawn so far
  phase,        \* "new", "active" (activate completed), "aborted", "inactive"
  rpcOk,        \* no RPC failed since the latest activate began
  inv,          \* slot -> the invocation in that slot (locals and history)
  event1,       \* inputs and result of the pure methods (SpecPure)
  event2,
  result

vars == <<calendarIds, newOnly, db, channels, uuidCount, phase, rpcOk, inv,
          event1, event2, result>>

Calendars == {"c1", "c2"}
CalendarConfigs == {<<"c1">>, <<"c1", "c2">>}
Slots == {1, 2}

CalIndex(cal) == IF cal = "c1" THEN 1 ELSE 2
\* the opaque resource id the remote assigns to a calendar
ResourceId(cal) == [t |-> "resource", v |-> <<CalIndex(cal)>>]

\* what db.get returns for the four keys of a calendar never written
AbsentRecord ==
  [nextSyncToken |-> Undefined, channelId |-> Undefined,
   resourceId |-> Undefined, expiration |-> Undefined]

\* ------------------------------------------------------------ environment
\* expirations (ms) the remote may give a channel
Expirations == {3000, 4000}
\* sync tokens the remote may return
Tokens == {Token(1), Token(2)}
\* interval_seconds a timer tick may carry
Intervals == {1}
\* clock readings at a tick: around expiration - 1000
Nows == {e - 1000 + d : e \in Expirations, d \in {-1, 0, 1}}

ItemNew ==
  [id |-> "e1", summary |-> "standup", status |-> "confirmed",
   created |-> Timestamp(10, 0, 0), updated |-> Timestamp(12, 0, 0)]
ItemOld ==
  [id |-> "e2", summary |-> "review", status |-> "confirmed",
   created |-> Timestamp(10, 0, 0), updated |-> Timestamp(12, 1, 0)]
ItemCancelled ==
  [id |-> "e3", summary |-> "lunch", status |-> "cancelled",
   created |-> Timestamp(10, 0, 0), updated |-> Timestamp(10, 0, 0)]
\* the item lists a page of the change feed may carry
PageContents ==
  {<<>>, <<ItemNew, ItemOld>>, <<ItemCancelled, ItemNew>>}

\* headers of an inbound notification
ChannelHeaders == {Undefined} \cup {Uuid(n) : n \in 1..MaxUuid}
StateHeaders == {"exists", "not_exists", "sync", "other", "undefined"}

\* ------------------------------------------------------------ invocations
NoData == [id |-> Undefined, resourceId |-> Undefined, expiration |-> Undefined]

IdleInv ==
  [kind |-> "idle", pc |-> "idle", i |-> 0,
   reqId |-> Undefined, data |-> NoData,
   stopId |-> Undefined, stopRid |-> Undefined,
   syncToken |-> Undefined, nextPageToken |-> Undefined, nextSyncToken |-> Undefined,
   calls |-> 0, cyc |-> 0, pages |-> <<>>, fetched |-> <<>>, emits |-> <<>>,
   rpcs |-> <<>>, db0 |-> [c \in Calendars |-> AbsentRecord],
   now |-> 0, intervalMs |-> 0, renew |-> FALSE,
   hdrChan |-> Undefined, hdrState |-> "undefined"]

Running(s) == inv[s].pc \notin {"idle", "done", "failed"}

\* History: one RPC of an invocation. watch: a, b, ret = the id, resourceId
\* and expiration returned; stop: a, b = the id and resourceId sent; list:
\* a, b = the syncToken and pageToken sent, ret, npt = the nextSyncToken and
\* nextPageToken returned; fullSync: ret = the token returned. status 0 is a
\* rejected call.
Rpc(op, cal, a, b, status, ret, npt) ==
  [op |-> op, cal |-> cal, a |-> a, b |-> b, status |-> status, ret |-> ret, npt |-> npt]

Init ==
  /\ calendarIds \in CalendarConfigs
  /\ newOnly \in BOOLEAN
  /\ db = [c \in Calendars |-> AbsentRecord]
  /\ channels = {}
  /\ uuidCount = 0
  /\ phase = "new"
  /\ rpcOk = TRUE
  /\ inv = [s \in Slots |-> IdleInv]
  /\ event1 = ItemNew
  /\ event2 = ItemNew
  /\ result = <<>>

\* ------------------------------------------------- makeWatchRequest (105-127)
WatchRecordWithoutToken(nextSyncToken, data) ==
  [nextSyncToken |-> Undefined, channelId |-> data.id,
   resourceId |-> data.resourceId, expiration |-> data.expiration]

WatchRecordWithoutExpiration(nextSyncToken, data) ==
  [nextSyncToken |-> nextSyncToken, channelId |-> data.id,
   resourceId |-> data.resourceId, expiration |-> Undefined]

\* the record the four db.set calls of one loop iteration persist
WatchRecord(nextSyncToken, data) ==
  [nextSyncToken |-> nextSyncToken, channelId |-> data.id,
   resourceId |-> data.resourceId, expiration |-> data.expiration]

\* ------------------------------------------------- stopWatchRequest (128-151)
\* the id / resourceId read from the store for the stop request
StopRequest(d, cal) == [id |-> d[cal].channelId, resourceId |-> d[cal].resourceId]

\* the record the four db.set(..., null) calls leave
ClearedRecord ==
  [nextSyncToken |-> Null, channelId |-> Null, resourceId |-> Null, expiration |-> Null]

AfterStopAlwaysClears(d, cal, status) == [d EXCEPT ![cal] = ClearedRecord]

AfterStop(d, cal, status) ==
  IF status = StatusNoContent THEN [d EXCEPT ![cal] = ClearedRecord] ELSE d

\* top of the stopWatchRequest loop at calendar i with store d: calendars
\* without a truthy id and resourceId are skipped; the invocation suspends at
\* the first stop call, or ends when the loop is over
RECURSIVE StopNext(_, _, _)
StopNext(r, i, d) ==
  IF i > Len(calendarIds) THEN [r EXCEPT !.pc = "done", !.i = i]
  ELSE LET req == StopRequest(d, calendarIds[i])
       IN  IF Truthy(req.id) /\ Truthy(req.resourceId)
           THEN [r EXCEPT !.pc = "stop", !.i = i,
                          !.stopId = req.id, !.stopRid = req.resourceId]
           ELSE StopNext(r, i + 1, d)

\* top of the makeWatchRequest loop at calendar i, n uuids drawn so far: a
\* fresh uuid is drawn and the invocation suspends at the watch call; after
\* the loop, activate is over and run goes on to stopWatchRequest (165-166)
MakeWatchNext(r, i, n, d) ==
  IF i <= Len(calendarIds)
  THEN [r EXCEPT !.pc = "watch", !.i = i, !.reqId = Uuid(n + 1)]
  ELSE IF r.kind = "timer" THEN StopNext(r, 1, d)
       ELSE [r EXCEPT !.pc = "done", !.i = i]

UuidAfter(i, n) == IF i <= Len(calendarIds) THEN n + 1 ELSE n

\* ------------------------------------------------------------- run (153-240)
ShouldRenewAtExpiration(now, intervalMs, expiration) ==
  ~NumGt(ParseInt(expiration), NumAdd(Num(now), Num(intervalMs)))

\* if now + interval > expiration (155-164)
ShouldRenew(now, intervalMs, expiration) ==
  LET expireDate == ParseInt(expiration)
  IN  NumGt(NumAdd(Num(now), Num(intervalMs)), expireDate)

\* the persisted channel ids collected at 170-174
ChannelIds(d) == [k \in 1..Len(calendarIds) |-> d[calendarIds[k]].channelId]

\* channelIds.includes(incomingChannelId) (176)
Includes(seq, x) == \E k \in 1..Len(seq) : seq[k] = x

FetchNextForgetsToken(r, i, d) ==
  IF i > Len(calendarIds) THEN [r EXCEPT !.pc = "done", !.i = i]
  ELSE [r EXCEPT !.pc = "list", !.i = i,
                 !.syncToken = Undefined,
                 !.nextSyncToken = Null, !.nextPageToken = Null,
                 !.calls = 0]

StateProceedsUnlessAbsent(state) == state \notin {"not_exists", "sync"}

\* switch (state) (185-198): only "exists" falls through to the fetch loop
StateProceeds(state) == state = "exists"

\* top of the fetch loop at calendar i with store d (201-205): the sync token
\* is read, the cursors reset, and the first list call is issued
FetchNext(r, i, d) ==
  IF i > Len(calendarIds) THEN [r EXCEPT !.pc = "done", !.i = i]
  ELSE [r EXCEPT !.pc = "list", !.i = i,
                 !.syncToken = d[calendarIds[i]].nextSyncToken,
                 !.nextSyncToken = Null, !.nextPageToken = Null,
                 !.calls = 0]

\* History of a fetch cycle: rpcs, pages, fetched and emits describe the cycle of
\* calendar number cyc; they start afresh with the first list response of the
\* next cycle.
CycleLog(r) ==
  IF r.calls = 0
  THEN [r EXCEPT !.cyc = r.i, !.rpcs = <<>>, !.pages = <<>>,
                 !.fetched = <<>>, !.emits = <<>>]
  ELSE r

SetSyncTokenKeepsOld(d, cal, tok) == d

SetSyncTokenIfNewer(d, cal, tok) ==
  IF d[cal].nextSyncToken.t = "token" /\ tok.t = "token"
     /\ tok.v[1] < d[cal].nextSyncToken.v[1]
  THEN d
  ELSE [d EXCEPT ![cal].nextSyncToken = tok]

\* db.set(`${calendarId}.nextSyncToken`, nextSyncToken) (237)
SetSyncToken(d, cal, tok) == [d EXCEPT ![cal].nextSyncToken = tok]

\* the prop this.calendarId read at 217: the source declares calendarIds only
ThisCalendarId == "undefined"

\* statuses the stop RPC may return
StopStatuses == {StatusNoContent, 404}

RejectRetries(r) == r

\* an awaited call rejects: nothing catches the exception, the invocation
\* is over
Reject(r) == [r EXCEPT !.pc = "failed"]

NewInv(kind) == [IdleInv EXCEPT !.kind = kind, !.db0 = db]
NoneRunning == \A t \in Slots : ~Running(t)
Log(r, entry) == [r EXCEPT !.rpcs = Append(@, entry)]

\* ------------------------------------------------------------------ actions
\* hooks.activate (49-51): enters makeWatchRequest
Activate(s) ==
  /\ NoneRunning
  /\ phase = "new"
  /\ uuidCount + Len(calendarIds) <= MaxUuid
  /\ inv' = [inv EXCEPT ![s] = MakeWatchNext(NewInv("activate"), 1, uuidCount, db)]
  /\ uuidCount' = UuidAfter(1, uuidCount)
  /\ rpcOk' = TRUE
  /\ UNCHANGED <<calendarIds, newOnly, db, channels, phase, event1, event2, result>>

\* hooks.deactivate (52-54): enters stopWatchRequest
Deactivate(s) ==
  /\ NoneRunning
  /\ phase = "active"
  /\ phase' = "inactive"
  /\ inv' = [inv EXCEPT ![s] = StopNext(NewInv("deactivate"), 1, db)]
  /\ UNCHANGED <<calendarIds, newOnly, db, channels, uuidCount, rpcOk,
                 event1, event2, result>>

\* run on a timer tick (155-167), up to the first watch call
TimerTick(s, nows) ==
  /\ ~Running(s)
  /\ \E seconds \in Intervals, now \in nows :
       LET intervalMs == seconds * 1000
           expiration == db[calendarIds[1]].expiration
           renew == ShouldRenew(now, intervalMs, expiration)
           r == [NewInv("timer") EXCEPT !.now = now, !.intervalMs = intervalMs,
                                        !.renew = renew]
       IN  /\ renew => uuidCount + Len(calendarIds) <= MaxUuid
           /\ inv' = [inv EXCEPT ![s] =
                        IF renew THEN MakeWatchNext(r, 1, uuidCount, db)
                        ELSE [r EXCEPT !.pc = "done"]]
           /\ uuidCount' = IF renew THEN UuidAfter(1, uuidCount) ELSE uuidCount
  /\ UNCHANGED <<calendarIds, newOnly, db, channels, phase, rpcOk,
                 event1, event2, result>>

\* run on an inbound notification (169-205), up to the first list call
Notification(s, states) ==
  /\ ~Running(s)
  /\ \E incomingChannelId \in ChannelHeaders, state \in states :
       LET r == [NewInv("http") EXCEPT !.hdrChan = incomingChannelId,
                                       !.hdrState = state]
       IN  inv' = [inv EXCEPT ![s] =
                     IF ~Includes(ChannelIds(db), incomingChannelId)
                     THEN [r EXCEPT !.pc = "done"]
                     ELSE IF ~StateProceeds(state) THEN [r EXCEPT !.pc = "done"]
                     ELSE FetchNext(r, 1, db)]
  /\ UNCHANGED <<calendarIds, newOnly, db, channels, uuidCount, phase, rpcOk,
                 event1, event2, result>>

\* the watch call returns (116-117); the full sync is issued (120)
WatchReturns(s, expirations) ==
  /\ inv[s].pc = "watch"
  /\ \E e \in expirations :
       LET r == inv[s]
           cal == calendarIds[r.i]
           data == [id |-> r.reqId, resourceId |-> ResourceId(cal),
                    expiration |-> Str(ToDigits(e))]
       IN  /\ channels' = channels \cup
                {[id |-> r.reqId, cal |-> cal, resourceId |-> ResourceId(cal)]}
           /\ inv' = [inv EXCEPT ![s] =
                        Log([r EXCEPT !.pc = "fullSync", !.data = data],
                            Rpc("watch", cal, data.id, data.resourceId, 200,
                                data.expiration, Undefined))]
  /\ UNCHANGED <<calendarIds, newOnly, db, uuidCount, phase, rpcOk,
                 event1, event2, result>>

\* the initial full sync returns (120); the record is persisted (122-125) and
\* the loop goes on to the next calendar
FullSyncReturns(s, tokens) ==
  /\ inv[s].pc = "fullSync"
  /\ \E nextSyncToken \in tokens :
       LET r == inv[s]
           cal == calendarIds[r.i]
           d == [db EXCEPT ![cal] = WatchRecord(nextSyncToken, r.data)]
           r1 == Log(r, Rpc("fullSync", cal, Undefined, Undefined, 200,
                            nextSyncToken, Undefined))
           next == MakeWatchNext(r1, r.i + 1, uuidCount, d)
       IN  /\ db' = d
           /\ inv' = [inv EXCEPT ![s] = next]
           /\ uuidCount' = UuidAfter(r.i + 1, uuidCount)
           /\ phase' = IF r.kind = "activate" /\ next.pc = "done"
                       THEN "active" ELSE phase
  /\ UNCHANGED <<calendarIds, newOnly, channels, rpcOk, event1, event2, result>>

\* the stop call returns a status (139-148); the loop goes on
StopReturns(s) ==
  /\ inv[s].pc = "stop"
  /\ \E status \in StopStatuses :
       LET r == inv[s]
           cal == calendarIds[r.i]
           target == {ch \in channels : ch.id = r.stopId /\ ch.resourceId = r.stopRid}
           d == AfterStop(db, cal, status)
           r1 == Log(r, Rpc("stop", cal, r.stopId, r.stopRid, status,
                            Undefined, Undefined))
       IN  /\ status = StatusNoContent => target # {}
           /\ channels' = IF status = StatusNoContent THEN channels \ target
                          ELSE channels
           /\ db' = d
           /\ inv' = [inv EXCEPT ![s] = StopNext(r1, r.i + 1, d)]
           /\ rpcOk' = (rpcOk /\ status = StatusNoContent)
  /\ UNCHANGED <<calendarIds, newOnly, uuidCount, phase, event1, event2, result>>

\* the page a list request asks for: the first one without a page token
PageOf(pageToken) == IF pageToken.t = "page" THEN pageToken.v[1] ELSE 1

\* a list call returns a page (214-235): its items are filtered and emitted;
\* the loop ends when the page carries a sync token, which is persisted (237)
ListReturnsPage(s, contents, tokens) ==
  /\ inv[s].pc = "list"
  /\ \E items \in contents,
        hasNext \in BOOLEAN,
        nextSyncToken \in {Undefined} \cup tokens :
       LET r == CycleLog(inv[s])
           cal == calendarIds[r.i]
           nextPageToken == IF hasNext THEN PageToken(PageOf(r.nextPageToken) + 1)
                            ELSE Undefined
           r1 == Log([r EXCEPT !.nextPageToken = nextPageToken,
                               !.nextSyncToken = nextSyncToken,
                               !.calls = @ + 1,
                               !.pages = Append(@, items),
                               !.fetched = @ \o items,
                               !.emits = @ \o EmitAll(newOnly, items)],
                     Rpc("list", cal, r.syncToken, r.nextPageToken, 200,
                         nextSyncToken, nextPageToken))
           d == SetSyncToken(db, cal, nextSyncToken)
       IN  /\ r.calls + 1 >= MaxListCalls => Truthy(nextSyncToken)
           /\ IF Truthy(nextSyncToken)
              THEN /\ db' = d
                   /\ inv' = [inv EXCEPT ![s] =
                                IF r.i + 1 > Len(calendarIds)
                                THEN [r1 EXCEPT !.pc = "done", !.i = r.i + 1]
                                ELSE FetchNext(r1, r.i + 1, d)]
              ELSE /\ db' = db
                   /\ inv' = [inv EXCEPT ![s] = r1]
  /\ UNCHANGED <<calendarIds, newOnly, channels, uuidCount, phase, rpcOk,
                 event1, event2, result>>

\* a list call returns status 410 (215-217): the full resync is issued
ListReturnsGone(s) ==
  /\ inv[s].pc = "list"
  /\ LET r == CycleLog(inv[s])
         cal == calendarIds[r.i]
     IN  inv' = [inv EXCEPT ![s] =
                   Log([r EXCEPT !.pc = "resync", !.calls = @ + 1],
                       Rpc("list", cal, r.syncToken, r.nextPageToken, StatusGone,
                           Undefined, Undefined))]
  /\ UNCHANGED <<calendarIds, newOnly, db, channels, uuidCount, phase, rpcOk,
                 event1, event2, result>>

\* the full resync returns (217-218); its token is persisted (237)
ResyncReturns(s, tokens) ==
  /\ inv[s].pc = "resync"
  /\ \E tok \in tokens :
       LET r == inv[s]
           cal == calendarIds[r.i]
           r1 == Log([r EXCEPT !.nextSyncToken = tok],
                     Rpc("fullSync", ThisCalendarId, Undefined, Undefined, 200,
                         tok, Undefined))
           d == SetSyncToken(db, cal, tok)
       IN  /\ db' = d
           /\ inv' = [inv EXCEPT ![s] =
                        IF r.i + 1 > Len(calendarIds)
                        THEN [r1 EXCEPT !.pc = "done", !.i = r.i + 1]
                        ELSE FetchNext(r1, r.i + 1, d)]
  /\ UNCHANGED <<calendarIds, newOnly, channels, uuidCount, phase, rpcOk,
                 event1, event2, result>>

\* an awaited RPC rejects: the error propagates and ends the invocation
RpcThrows(s) ==
  /\ inv[s].pc \in {"watch", "fullSync", "stop", "list", "resync"}
  /\ inv' = [inv EXCEPT ![s] =
               Log(Reject(IF inv[s].pc = "list" THEN CycleLog(inv[s]) ELSE inv[s]),
                   Rpc(IF inv[s].pc = "resync" THEN "fullSync" ELSE inv[s].pc,
                       IF inv[s].pc = "resync" THEN ThisCalendarId
                       ELSE calendarIds[inv[s].i],
                       IF inv[s].pc = "list" THEN inv[s].syncToken
                       ELSE IF inv[s].pc = "stop" THEN inv[s].stopId
                       ELSE IF inv[s].pc = "watch" THEN inv[s].reqId
                       ELSE Undefined,
                       IF inv[s].pc = "list" THEN inv[s].nextPageToken
                       ELSE IF inv[s].pc = "stop" THEN inv[s].stopRid
                       ELSE Undefined,
                       0, Undefined, Undefined))]
  /\ rpcOk' = FALSE
  /\ phase' = IF inv[s].kind = "activate" THEN "aborted" ELSE phase
  /\ UNCHANGED <<calendarIds, newOnly, db, channels, uuidCount,
                 event1, event2, result>>

\* The channel lifecycle: every hook and tick, every outcome of watch, full
\* sync and stop, and the notifications that report no content change; one
\* invocation at a time runs to completion before the next is processed.
Next ==
  \/ Activate(1)
  \/ Deactivate(1)
  \/ TimerTick(1, Nows)
  \/ Notification(1, StateHeaders \ {"exists"})
  \/ WatchReturns(1, Expirations)
  \/ FullSyncReturns(1, Tokens)
  \/ StopReturns(1)
  \/ RpcThrows(1)

Spec == Init /\ [][Next]_vars

\* The fetch cycle: an activated source receiving notifications, with every
\* page content and token the change feed may serve.
NextFetch ==
  \/ Activate(1)
  \/ Notification(1, StateHeaders)
  \/ WatchReturns(1, {3000})
  \/ FullSyncReturns(1, {Token(1)})
  \/ ListReturnsPage(1, PageContents, Tokens)
  \/ ListReturnsGone(1)
  \/ ResyncReturns(1, Tokens)
  \/ RpcThrows(1)

SpecFetch == Init /\ [][NextFetch]_vars

\* Concurrent invocations: notifications are not mutually excluded, a second
\* one may start while the first is suspended at a list call.
RaceTokens == {Token(2), Token(3)}

NextRace ==
  \/ Activate(1)
  \/ WatchReturns(1, {3000})
  \/ FullSyncReturns(1, {Token(1)})
  \/ \E s \in Slots : Notification(s, {"exists"})
  \/ \E s \in Slots : ListReturnsPage(s, {<<>>}, RaceTokens)

\* one watched calendar, every event relevant
InitRace ==
  /\ calendarIds = <<"c1">>
  /\ newOnly = FALSE
  /\ db = [c \in Calendars |-> AbsentRecord]
  /\ channels = {}
  /\ uuidCount = 0
  /\ phase = "new"
  /\ rpcOk = TRUE
  /\ inv = [s \in Slots |-> IdleInv]
  /\ event1 = ItemNew
  /\ event2 = ItemNew
  /\ result = <<>>

SpecRace == InitRace /\ [][NextRace]_vars

\* ------------------------------------------------------ the pure methods
\* timestamps around created = 10 s: 2000 ms and 2001 ms before and after,
\* the same instant written with another UTC offset, and an unparseable one
PureCreated == {Timestamp(10, 0, 0), Timestamp(70, 0, 1), BadTimestamp}
PureUpdated ==
  {Timestamp(10, 0, 0), Timestamp(12, 0, 0), Timestamp(12, 1, 0),
   Timestamp(8, 0, 0), Timestamp(7, 999, 0), Timestamp(72, 0, 1),
   Timestamp(72, 1, 1), BadTimestamp}
PureEvents ==
  [id : {"e1", "e2"}, summary : {"standup"}, status : {"confirmed"},
   created : PureCreated, updated : PureUpdated]

InitPure ==
  /\ calendarIds = <<"c1">>
  /\ newOnly \in BOOLEAN
  /\ db = [c \in Calendars |-> AbsentRecord]
  /\ channels = {}
  /\ uuidCount = 0
  /\ phase = "new"
  /\ rpcOk = TRUE
  /\ inv = [s \in Slots |-> IdleInv]
  /\ event1 \in PureEvents
  /\ event2 \in PureEvents
  /\ result = <<>>

\* isEventRelevant and generateMeta applied to both events
ApplyPure ==
  /\ result = <<>>
  /\ result' = <<[relevant |-> isEventRelevant(newOnly, event1),
                  meta |-> generateMeta(event1)],
                 [relevant |-> isEventRelevant(newOnly, event2),
                  meta |-> generateMeta(event2)]>>
  /\ UNCHANGED <<calendarIds, newOnly, db, channels, uuidCount, phase, rpcOk,
                 inv, event1, event2>>

NextPure == ApplyPure

SpecPure == InitPure /\ [][NextPure]_vars

\* ------------------------------------------------------------------ claims
\* the instant (ms since the epoch) a valid timestamp string denotes
Millis(ts) == (ts.sec * 1000 + ts.ms) - ts.off * 60000

\* |updated - created| <= 2000 ms, for an event whose timestamps are both valid
WithinTwoSeconds(e) ==
  /\ e.created.valid
  /\ e.updated.valid
  /\ Millis(e.updated) - Millis(e.created) <= 2000
  /\ Millis(e.created) - Millis(e.updated) <= 2000

\* C9: isEventRelevant is true for every event when newOnly is false; when
\* newOnly is true it is true exactly when |updated - created| <= 2000 ms.
C9_RelevantIffWithinTwoSeconds ==
  result # <<>> =>
    /\ result[1].relevant = (~newOnly \/ WithinTwoSeconds(event1))
    /\ result[2].relevant = (~newOnly \/ WithinTwoSeconds(event2))

\* C9 witness: with newOnly set, an event updated exactly 2000 ms after its
\* creation is relevant and one updated 2001 ms before it is not.
C9_Witness ==
  /\ result # <<>>
  /\ newOnly
  /\ event1.created.valid /\ event1.updated.valid
  /\ Millis(event1.updated) - Millis(event1.created) = 2000
  /\ result[1].relevant
  /\ event2.created.valid /\ event2.updated.valid
  /\ Millis(event2.created) - Millis(event2.updated) = 2001
  /\ ~result[2].relevant

\* two updated timestamps that denote different times (or of which exactly
\* one is a timestamp at all)
DifferentTimes(u1, u2) ==
  \/ u1.valid # u2.valid
  \/ u1.valid /\ u2.valid /\ Millis(u1) # Millis(u2)

\* C10: events with identical (id, updated) get identical dedupe ids, events
\* with the same id and different updated times get different dedupe ids,
\* and the metadata timestamp is the updated time in milliseconds.
C10_DedupeIdFromIdAndUpdated ==
  result # <<>> =>
    /\ (event1.id = event2.id /\ event1.updated = event2.updated)
         => result[1].meta.id = result[2].meta.id
    /\ (event1.id = event2.id /\ DifferentTimes(event1.updated, event2.updated))
         => result[1].meta.id # result[2].meta.id
    /\ event1.updated.valid => result[1].meta.ts = Num(Millis(event1.updated))
    /\ event2.updated.valid => result[2].meta.ts = Num(Millis(event2.updated))

\* C10 witness: two events with the same id, created at different times,
\* one updated a millisecond after the other.
C10_Witness ==
  /\ result # <<>>
  /\ event1.id = event2.id
  /\ event1.created # event2.created
  /\ event1.updated.valid /\ event2.updated.valid
  /\ Millis(event1.updated) = Millis(event2.updated) + 1
  /\ result[1].meta.id # result[2].meta.id

\* the indices of the entries of an RPC history that satisfy Test
Entries(rpcs, Test(_)) == {k \in 1..Len(rpcs) : Test(rpcs[k])}

\* C1: on a renewal the watch of the new channel is issued before the stop,
\* and every stop targets the channel persisted before the renewal began,
\* never a channel this invocation has just established.
C1_StopTargetsOldChannel ==
  \A s \in Slots :
    inv[s].kind = "timer" =>
      /\ inv[s].pc = "stop" =>
           /\ inv[s].stopId = inv[s].db0[calendarIds[inv[s].i]].channelId
           /\ \A k \in 1..Len(inv[s].rpcs) :
                inv[s].rpcs[k].op = "watch" => inv[s].rpcs[k].a # inv[s].stopId
      /\ \A j, k \in 1..Len(inv[s].rpcs) :
           (inv[s].rpcs[j].op = "watch" /\ inv[s].rpcs[k].op = "stop") => j < k

\* C2: between a successful activate and deactivate, with every RPC
\* succeeding, at every invocation boundary each watched calendar has a
\* channel active at the remote whose id is the persisted channelId.
C2_RecognisedChannelStaysActive ==
  (phase = "active" /\ rpcOk /\ \A s \in Slots : ~Running(s)) =>
    \A k \in 1..Len(calendarIds) :
      \E ch \in channels :
        /\ ch.cal = calendarIds[k]
        /\ ch.id = db[calendarIds[k]].channelId

\* the channel ids persisted for the watched calendars in store d
PersistedChannelIds(d) ==
  {d[calendarIds[k]].channelId : k \in 1..Len(calendarIds)}
    \ {Undefined, Null}

\* C3: a notification whose channel id is not among the persisted channel
\* ids (a missing header included) performs no list or full-sync RPC, emits
\* nothing and leaves the persisted state unchanged.
C3_UnknownChannelIgnored ==
  \A s \in Slots :
    (inv[s].kind = "http" /\ inv[s].hdrChan \notin PersistedChannelIds(inv[s].db0)) =>
      /\ inv[s].pc = "done"
      /\ inv[s].rpcs = <<>>
      /\ inv[s].emits = <<>>
      /\ db = inv[s].db0

IsGone(e) == e.op = "list" /\ e.status = StatusGone
IsList(e) == e.op = "list"
IsFullSync(e) == e.op = "fullSync"

\* C4: once a list call of a fetch cycle returns 410, the cycle issues no
\* further list call, emits nothing but items of the pages returned before,
\* performs exactly one full resync and persists the token it returns as the
\* calendar's syncToken.
C4_InvalidationEndsCycle ==
  \A s \in Slots :
    LET r == inv[s]
        gone == Entries(r.rpcs, IsGone)
        syncs == Entries(r.rpcs, IsFullSync)
    IN  (r.kind = "http" /\ gone # {}) =>
          /\ \A g \in gone : \A k \in Entries(r.rpcs, IsList) : k <= g
          /\ ~(r.pc = "list" /\ r.i = r.cyc /\ r.calls > 0)
          /\ \A k \in 1..Len(r.emits) :
               \E j \in 1..Len(r.fetched) : r.emits[k].event = r.fetched[j]
          /\ Cardinality(syncs) <= 1
          /\ r.pc = "resync" => syncs = {}
          /\ r.pc # "resync" => Cardinality(syncs) = 1
          /\ r.i > r.cyc =>
               \A k \in syncs :
                 /\ k = Len(r.rpcs)
                 /\ r.rpcs[k].status = 200
                 /\ db[calendarIds[r.cyc]].nextSyncToken = r.rpcs[k].ret

\* C4 witness: the second list call of the first calendar's cycle returned
\* 410 after a page whose items were emitted, the resync returned, and the
\* invocation went on.
C4_Witness ==
  \E s \in Slots :
    /\ inv[s].kind = "http"
    /\ inv[s].i > inv[s].cyc
    /\ Len(inv[s].rpcs) = 3
    /\ IsGone(inv[s].rpcs[2])
    /\ IsFullSync(inv[s].rpcs[3])
    /\ inv[s].emits # <<>>
    /\ db[calendarIds[inv[s].cyc]].nextSyncToken = inv[s].rpcs[3].ret
    /\ inv[s].syncToken # inv[s].rpcs[3].ret

StopEntry(e, cal, status) == e.op = "stop" /\ e.cal = cal /\ e.status = status

\* C5: deactivate clears a calendar's record exactly when the stop RPC for
\* that calendar returns 204; after any other status the record is unchanged,
\* no error is raised and the remaining calendars are processed.
C5_DeactivateClearsOnlyOn204 ==
  \A s \in Slots :
    LET r == inv[s] IN
    r.kind = "deactivate" =>
      /\ \A k \in 1..Len(calendarIds) :
           LET cal == calendarIds[k] IN
           IF k < r.i /\ \E j \in 1..Len(r.rpcs) :
                           StopEntry(r.rpcs[j], cal, StatusNoContent)
           THEN db[cal] = ClearedRecord
           ELSE db[cal] = r.db0[cal]
      /\ r.pc = "failed" => r.rpcs[Len(r.rpcs)].status = 0
      /\ r.pc = "done" =>
           \A k \in 1..Len(calendarIds) :
             (Truthy(r.db0[calendarIds[k]].channelId)
                /\ Truthy(r.db0[calendarIds[k]].resourceId))
               => \E j \in 1..Len(r.rpcs) :
                    r.rpcs[j].op = "stop" /\ r.rpcs[j].cal = calendarIds[k]

\* C5 witness: deactivate over two calendars ended; the first stop returned
\* another status than 204, the second returned 204.
C5_Witness ==
  \E s \in Slots :
    /\ inv[s].kind = "deactivate"
    /\ inv[s].pc = "done"
    /\ Len(inv[s].rpcs) = 2
    /\ inv[s].rpcs[1].status # StatusNoContent
    /\ inv[s].rpcs[2].status = StatusNoContent
    /\ db[calendarIds[1]] = inv[s].db0[calendarIds[1]]
    /\ db[calendarIds[2]] = ClearedRecord

\* C6: after activate completes, every configured calendar has a record
\* whose syncToken is the token its initial full sync returned and whose
\* channelId, resourceId and expiration are those its watch RPC returned,
\* none of them null or absent.
C6_ActivatePersistsEveryRecord ==
  \A s \in Slots :
    LET r == inv[s] IN
    (r.kind = "activate" /\ r.pc = "done") =>
      \A k \in 1..Len(calendarIds) :
        LET cal == calendarIds[k]
            w == r.rpcs[2 * k - 1]
            f == r.rpcs[2 * k]
        IN  /\ Len(r.rpcs) = 2 * Len(calendarIds)
            /\ w.op = "watch" /\ w.cal = cal
            /\ f.op = "fullSync" /\ f.cal = cal
            /\ db[cal].nextSyncToken = f.ret
            /\ db[cal].channelId = w.a
            /\ db[cal].resourceId = w.b
            /\ db[cal].expiration = w.ret
            /\ Truthy(db[cal].nextSyncToken) /\ Truthy(db[cal].channelId)
            /\ Truthy(db[cal].resourceId) /\ Truthy(db[cal].expiration)

\* C6 witness: activate completed over two calendars.
C6_Witness ==
  \E s \in Slots :
    /\ inv[s].kind = "activate"
    /\ inv[s].pc = "done"
    /\ Len(calendarIds) = 2
    /\ phase = "active"

\* events the claim holds relevant: all of them unless newOnly is set
RelevantItem(e) == ~newOnly \/ WithinTwoSeconds(e)

\* C7: no cancelled item is ever emitted, and the items emitted in a fetch
\* cycle are exactly the fetched items that are relevant and not cancelled.
C7_CancelledNeverEmitted ==
  \A s \in Slots :
    LET r == inv[s]
        due == SelectSeq(r.fetched,
                         LAMBDA e : RelevantItem(e) /\ e.status # "cancelled")
    IN  /\ \A k \in 1..Len(r.emits) : r.emits[k].event.status # "cancelled"
        /\ Len(r.emits) = Len(due)
        /\ \A k \in 1..Len(due) : r.emits[k].event = due[k]

\* C7 witness: a page carrying a cancelled item and a new one was fetched
\* with newOnly set, and one event was emitted.
C7_Witness ==
  \E s \in Slots :
    /\ newOnly
    /\ inv[s].fetched = <<ItemCancelled, ItemNew>>
    /\ Len(inv[s].emits) = 1

\* the expiration T every watched calendar had when the invocation began
SameExpiration(r, T) ==
  \A k \in 1..Len(calendarIds) :
    r.db0[calendarIds[k]].expiration = Str(ToDigits(T))

\* C8: on a tick with interval I and persisted expiration T the renewal
\* (watch, then stop) is performed exactly when now + I > T; otherwise no RPC
\* is issued and the state is unchanged.
C8_RenewalIffExpiringSoon ==
  \A s \in Slots :
    LET r == inv[s] IN
    \A T \in Expirations :
      (r.kind = "timer" /\ SameExpiration(r, T)) =>
        IF r.now + r.intervalMs > T
        THEN /\ r.pc = "watch" \/ (r.rpcs # <<>> /\ r.rpcs[1].op = "watch")
             /\ r.pc = "done" =>
                  \A k \in 1..Len(calendarIds) :
                    \E i, j \in 1..Len(r.rpcs) :
                      /\ i < j
                      /\ r.rpcs[i].op = "watch" /\ r.rpcs[i].cal = calendarIds[k]
                      /\ r.rpcs[j].op = "stop" /\ r.rpcs[j].cal = calendarIds[k]
        ELSE /\ r.pc = "done"
             /\ r.rpcs = <<>>
             /\ db = r.db0

\* C8 witness: a tick one millisecond past T - I ended after its renewal,
\* and the expiration is the one boundary ticks leave alone.
C8_Witness ==
  \E s \in Slots : \E T \in Expirations :
    /\ inv[s].kind = "timer"
    /\ SameExpiration(inv[s], T)
    /\ inv[s].now + inv[s].intervalMs = T + 1
    /\ inv[s].pc = "done"
    /\ \E j \in 1..Len(inv[s].rpcs) : inv[s].rpcs[j].op = "stop"

\* the cycle of the calendar the invocation is at has a list call in flight
\* after at least one list response
MidCycle(r) == r.kind = "http" /\ r.pc = "list" /\ r.i = r.cyc /\ r.calls > 0

\* C11: a fetch cycle requests each page at most once and issues no list
\* call after the final page (a page with no next-page token) or after an
\* invalidation, whatever tokens the pages carry.
C11_EachPageRequestedOnce ==
  \A s \in Slots :
    LET r == inv[s]
        lists == Entries(r.rpcs, IsList)
    IN  r.kind = "http" =>
          /\ \A j, k \in lists :
               (j # k /\ r.rpcs[j].status # 0 /\ r.rpcs[k].status # 0)
                 => PageOf(r.rpcs[j].b) # PageOf(r.rpcs[k].b)
          /\ MidCycle(r) =>
               /\ Truthy(r.rpcs[Len(r.rpcs)].npt)
               /\ ~IsGone(r.rpcs[Len(r.rpcs)])

\* C12: each watched calendar has at most one channel active at the remote
\* (registered by watch and not stopped).
C12_AtMostOneActiveChannel ==
  \A ch1, ch2 \in channels : ch1.cal = ch2.cal => ch1 = ch2

\* C13: the full resync that follows a 410 in the fetch cycle of a calendar
\* is requested for that calendar, the one under whose key the token is
\* persisted.
C13_ResyncTargetsInvalidatedCalendar ==
  \A s \in Slots :
    LET r == inv[s] IN
    r.kind = "http" =>
      \A k \in Entries(r.rpcs, IsFullSync) : r.rpcs[k].cal = calendarIds[r.cyc]

\* the watch requests an invocation has issued for a calendar, returned or
\* in flight
WatchIssued(r, k) ==
  \/ \E j \in 1..Len(r.rpcs) : r.rpcs[j].op = "watch" /\ r.rpcs[j].cal = calendarIds[k]
  \/ r.pc = "watch" /\ r.i = k

\* C14: on a tick each watched calendar is renewed exactly when its own
\* persisted expiration T satisfies now + interval > T, whatever the
\* expirations of the other calendars.
C14_RenewalPerCalendar ==
  \A s \in Slots :
    LET r == inv[s] IN
    r.kind = "timer" =>
      \A k \in 1..Len(calendarIds) : \A T \in Expirations :
        r.db0[calendarIds[k]].expiration = Str(ToDigits(T)) =>
          /\ WatchIssued(r, k) => r.now + r.intervalMs > T
          /\ (r.pc = "done" /\ r.now + r.intervalMs > T) => WatchIssued(r, k)

\* C15: every list call of a cycle sends the syncToken read at the start of
\* the cycle and the previous page's nextPageToken; the persisted syncToken
\* is untouched while the cycle is between pages; after a cycle that ended
\* without invalidation it is the nextSyncToken of the last page.
C15_TokenPersistedFromFinalPage ==
  \A s \in Slots :
    LET r == inv[s] IN
    (r.kind = "http" /\ r.rpcs # <<>>) =>
      LET cal == calendarIds[r.cyc]
          start == r.db0[cal].nextSyncToken
          last == r.rpcs[Len(r.rpcs)]
      IN  /\ \A k \in Entries(r.rpcs, IsList) :
               /\ r.rpcs[k].a = start
               /\ r.rpcs[k].b = IF k = 1 THEN Null ELSE r.rpcs[k - 1].npt
          /\ MidCycle(r) => db[cal].nextSyncToken = start
          /\ r.pc = "failed" => db[cal].nextSyncToken = start
          /\ (r.i > r.cyc /\ Entries(r.rpcs, IsGone) = {}) =>
               /\ IsList(last)
               /\ Truthy(last.ret)
               /\ db[cal].nextSyncToken = last.ret

\* C15 witness: a cycle of two pages ended; the first page carried a
\* next-page token only, the second a sync token other than the one sent.
C15_Witness ==
  \E s \in Slots :
    /\ inv[s].kind = "http"
    /\ inv[s].i > inv[s].cyc
    /\ Len(inv[s].rpcs) = 2
    /\ IsList(inv[s].rpcs[1]) /\ Truthy(inv[s].rpcs[1].npt)
    /\ ~Truthy(inv[s].rpcs[1].ret)
    /\ IsList(inv[s].rpcs[2]) /\ inv[s].rpcs[2].b = inv[s].rpcs[1].npt
    /\ Truthy(inv[s].rpcs[2].a)
    /\ inv[s].rpcs[2].ret # inv[s].rpcs[2].a
    /\ db[calendarIds[inv[s].cyc]].nextSyncToken = inv[s].rpcs[2].ret

\* the notification carried the id of a channel persisted when it arrived
KnownChannel(r) == r.hdrChan \in PersistedChannelIds(r.db0)

\* the invocation went on to the fetch loop
Fetching(r) == r.pc \in {"list", "resync", "failed"} \/ r.rpcs # <<>>

\* C16: a known-channel notification whose resource state is anything but
\* "exists" (absent included) issues no RPC, emits nothing and leaves the
\* store unchanged; a known-channel notification with state "exists" goes on
\* to fetch, and nothing fetches with another state.
C16_OnlyExistsProceeds ==
  \A s \in Slots :
    LET r == inv[s] IN
    r.kind = "http" =>
      /\ (KnownChannel(r) /\ r.hdrState # "exists") =>
           /\ r.pc = "done"
           /\ r.rpcs = <<>>
           /\ r.emits = <<>>
           /\ db = r.db0
      /\ (KnownChannel(r) /\ r.hdrState = "exists") => Fetching(r)
      /\ Fetching(r) => r.hdrState = "exists"

\* C16 witness: a notification of a persisted channel with no resource-state
\* header ended at once, on an activated source.
C16_Witness ==
  \E s \in Slots :
    /\ phase = "active"
    /\ inv[s].kind = "http"
    /\ KnownChannel(inv[s])
    /\ inv[s].hdrState = "undefined"
    /\ inv[s].pc = "done"

\* the relevant, non-cancelled items of the pages, page after page, each
\* page in the order received
RECURSIVE DueInPageOrder(_)
DueInPageOrder(pages) ==
  IF pages = <<>> THEN <<>>
  ELSE SelectSeq(Head(pages),
                 LAMBDA e : RelevantItem(e) /\ e.status # "cancelled")
         \o DueInPageOrder(Tail(pages))

IsPage(e) == e.op = "list" /\ e.status = 200

\* C17: the events emitted in a fetch cycle are the relevant, non-cancelled
\* items of the pages returned, each once, page k before page k + 1 and the
\* items of a page in the order received.
C17_EmittedInFeedOrder ==
  \A s \in Slots :
    LET r == inv[s]
        due == DueInPageOrder(r.pages)
    IN  /\ Len(r.pages) = Cardinality(Entries(r.rpcs, IsPage))
        /\ Len(r.emits) = Len(due)
        /\ \A k \in 1..Len(due) :
             /\ r.emits[k].event = due[k]
             /\ r.emits[k].meta = generateMeta(due[k])

\* C17 witness: two pages of two items each were returned and three events
\* emitted, the first page's two before the second page's one.
C17_Witness ==
  \E s \in Slots :
    /\ inv[s].pages = <<(<<ItemNew, ItemOld>>), (<<ItemCancelled, ItemNew>>)>>
    /\ Len(inv[s].emits) = 3
    /\ inv[s].emits[2].event = ItemOld
    /\ inv[s].emits[3].event = ItemNew

\* C18: for every calendar the persisted channelId, resourceId and
\* expiration are all set or all cleared (null or absent), at every
\* invocation boundary and suspension point, aborted invocations included.
C18_ChannelFieldsSetTogether ==
  \A c \in Calendars :
    /\ Truthy(db[c].channelId) = Truthy(db[c].resourceId)
    /\ Truthy(db[c].resourceId) = Truthy(db[c].expiration)

\* C18 witness: an invocation over two calendars was aborted by a failing
\* full sync of the second calendar after the first one's record was set.
C18_Witness ==
  \E s \in Slots :
    /\ inv[s].pc = "failed"
    /\ inv[s].i = 2
    /\ inv[s].rpcs[Len(inv[s].rpcs)].op = "fullSync"
    /\ Truthy(db[calendarIds[1]].channelId)
    /\ \E ch \in channels : ch.cal = calendarIds[2]

\* C19: the write of a finished cycle is unconditional: whatever the store
\* holds by then, the calendar's syncToken becomes the token the invocation
\* obtained with the syncToken it read when its cycle began.
C19_LastWriterWins ==
  [][\A s \in Slots :
       (inv[s].kind = "http" /\ inv[s].pc = "list" /\ inv'[s].i > inv[s].i) =>
         LET last == inv'[s].rpcs[Len(inv'[s].rpcs)] IN
         /\ last.a = inv[s].syncToken
         /\ db'[calendarIds[inv[s].i]].nextSyncToken = last.ret]_vars

\* C19 witness: two invocations read the same syncToken of the first
\* calendar and both finished its cycle; the store holds the token of the
\* one that wrote last, not the token the other had persisted meanwhile.
C19_Witness ==
  \E s, t \in Slots :
    LET rs == inv[s]
        rt == inv[t]
    IN  /\ s # t
        /\ rs.kind = "http" /\ rt.kind = "http"
        /\ rs.cyc = 1 /\ rt.cyc = 1
        /\ rs.i > 1 /\ rt.i > 1
        /\ Truthy(rs.rpcs[1].a)
        /\ rs.rpcs[1].a = rt.rpcs[1].a
        /\ rt.rpcs[Len(rt.rpcs)].ret # rt.rpcs[1].a
        /\ rs.rpcs[Len(rs.rpcs)].ret # rt.rpcs[Len(rt.rpcs)].ret
        /\ rs.rpcs[Len(rs.rpcs)].ret.v[1] < rt.rpcs[Len(rt.rpcs)].ret.v[1]
        /\ db[calendarIds[1]].nextSyncToken = rs.rpcs[Len(rs.rpcs)].ret

IsFailedList(e) == e.op = "list" /\ e.status = 0

\* C20: a list call that rejects ends the invocation: no further call is
\* issued, and the records of the calendar being fetched and of every
\* calendar after it are what they were when the invocation began.
C20_ListFailureEndsInvocation ==
  \A s \in Slots :
    LET r == inv[s]
        fails == Entries(r.rpcs, IsFailedList)
    IN  (r.kind = "http" /\ fails # {}) =>
          /\ r.pc = "failed"
          /\ fails = {Len(r.rpcs)}
          /\ r.i = r.cyc
          /\ \A k \in r.i..Len(calendarIds) :
               db[calendarIds[k]] = r.db0[calendarIds[k]]

\* C20 witness: the first list call of the second calendar's cycle rejected
\* after the first calendar's cycle had persisted a new token.
C20_Witness ==
  \E s \in Slots :
    /\ phase = "active"
    /\ inv[s].kind = "http"
    /\ inv[s].pc = "failed"
    /\ inv[s].i = 2
    /\ IsFailedList(inv[s].rpcs[Len(inv[s].rpcs)])
    /\ db[calendarIds[1]].nextSyncToken # inv[s].db0[calendarIds[1]].nextSyncToken
    /\ db[calendarIds[2]] = inv[s].db0[calendarIds[2]]
====
